---- MODULE Spec2Model ----
(***************************************************************************)
(* DCP analysis of CVXPY expressions: the expression store, the shape,    *)
(* sign and curvature engines and the atom registry, as documented in the *)
(* DCP tutorial (src/unnamed/part_000, src/examples/notebooks/DCP.ipynb). *)
(***************************************************************************)
EXTENDS Integers, Sequences, FiniteSets, TLC

VARIABLES nodes, built, pc, call, result, work

vars == <<nodes, built, pc, call, result, work>>

\* The number of nodes a session builds on top of the store it starts from.
MaxBuilt == 2

(***************************************************************************)
(* Values                                                                  *)
(***************************************************************************)
Signs == {"POSITIVE", "NEGATIVE", "ZERO", "UNKNOWN"}

Curvatures == {"CONSTANT", "AFFINE", "CONVEX", "CONCAVE", "UNKNOWN"}

Monotonicities == {"INCREASING", "DECREASING", "NONMONOTONE"}

Scalar == <<1, 1>>

Entries(shape) == (1..shape[1]) \X (1..shape[2])

Uniform(shape, v) == [e \in Entries(shape) |-> v]

is_scalar(n) == n.shape = Scalar

is_vector(n) == n.shape[1] = 1 \/ n.shape[2] = 1

\* The entry of a grid that an elementwise operation reads at position e:
\* a scalar operand broadcasts.
At(grid, shape, e) == IF shape = Scalar THEN grid[<<1, 1>>] ELSE grid[e]

(***************************************************************************)
(* Leaves                                                                  *)
(***************************************************************************)
LeafAtoms == {"variable", "parameter", "constant"}

Variable(rows, cols) ==
    [atom |-> "variable", args |-> <<>>, shape |-> <<rows, cols>>,
     sign |-> Uniform(<<rows, cols>>, "UNKNOWN"),
     curvature |-> Uniform(<<rows, cols>>, "AFFINE")]

Parameter(declared) ==
    [atom |-> "parameter", args |-> <<>>, shape |-> Scalar,
     sign |-> Uniform(Scalar, declared),
     curvature |-> Uniform(Scalar, "CONSTANT")]

SignOfValue(v) ==
    IF v > 0 THEN "POSITIVE" ELSE IF v < 0 THEN "NEGATIVE" ELSE "ZERO"

\* A numeric constant: values is the grid of its entries.
Constant(rows, cols, values) ==
    [atom |-> "constant", args |-> <<>>, shape |-> <<rows, cols>>,
     sign |-> [e \in Entries(<<rows, cols>>) |-> SignOfValue(values[e])],
     curvature |-> Uniform(<<rows, cols>>, "CONSTANT")]

(***************************************************************************)
(* Atom registry                                                           *)
(***************************************************************************)
UnaryAtoms == {"square", "sqrt", "norm"}

BinaryAtoms == {"add", "sub", "mul", "div", "vstack"}

Base(atom) ==
    CASE atom \in {"add", "sub", "mul", "div", "vstack"} -> "AFFINE"
      [] atom \in {"square", "norm"} -> "CONVEX"
      [] atom = "sqrt" -> "CONCAVE"

\* Mutant: the constant factor's sign is ignored.
MulMonotonicityUnsigned(other) == "INCREASING"

\* Mutant: a factor whose sign is not known to be NEGATIVE counts as
\* non-negative.
MulMonotonicityOptimistic(other) ==
    IF other = "NEGATIVE" THEN "DECREASING" ELSE "INCREASING"

\* The monotonicity of a product in one factor, from the sign of the other.
MulMonotonicity(other) ==
    CASE other = "POSITIVE" -> "INCREASING"
      [] other = "NEGATIVE" -> "DECREASING"
      [] OTHER -> "NONMONOTONE"

\* Mutant: square takes a declared monotonicity, not the argument's sign.
MonotonicityDeclared(atom, i, signs) ==
    CASE atom \in {"add", "vstack", "sqrt", "square"} -> "INCREASING"
      [] atom = "sub" -> IF i = 1 THEN "INCREASING" ELSE "DECREASING"
      [] atom = "norm" -> "NONMONOTONE"
      [] atom \in {"mul", "div"} -> MulMonotonicity(signs[3 - i])

\* monotonicity(argument index, signs of the arguments at the entry).
Monotonicity(atom, i, signs) ==
    CASE atom \in {"add", "vstack", "sqrt"} -> "INCREASING"
      [] atom = "sub" -> IF i = 1 THEN "INCREASING" ELSE "DECREASING"
      [] atom = "square" ->
             CASE signs[i] \in {"POSITIVE", "ZERO"} -> "INCREASING"
               [] signs[i] = "NEGATIVE" -> "DECREASING"
               [] OTHER -> "NONMONOTONE"
      [] atom = "norm" -> "NONMONOTONE"
      [] atom \in {"mul", "div"} -> MulMonotonicity(signs[3 - i])

(***************************************************************************)
(* Sign engine                                                             *)
(***************************************************************************)
\* Mutant: an UNKNOWN operand is looked at before a ZERO one.
SignMulUnknownFirst(s1, s2) ==
    IF s1 = "UNKNOWN" \/ s2 = "UNKNOWN" THEN "UNKNOWN"
    ELSE IF s1 = "ZERO" \/ s2 = "ZERO" THEN "ZERO"
    ELSE IF s1 = s2 THEN "POSITIVE"
    ELSE "NEGATIVE"

SignMul(s1, s2) ==
    IF s1 = "ZERO" \/ s2 = "ZERO" THEN "ZERO"
    ELSE IF s1 = "UNKNOWN" \/ s2 = "UNKNOWN" THEN "UNKNOWN"
    ELSE IF s1 = s2 THEN "POSITIVE"
    ELSE "NEGATIVE"

SignAdd(s1, s2) ==
    IF s1 = "ZERO" THEN s2
    ELSE IF s2 = "ZERO" THEN s1
    ELSE IF s1 = s2 /\ s1 # "UNKNOWN" THEN s1
    ELSE "UNKNOWN"

SignNeg(s) ==
    CASE s = "POSITIVE" -> "NEGATIVE"
      [] s = "NEGATIVE" -> "POSITIVE"
      [] OTHER -> s

RECURSIVE SignSum(_, _)
\* The addition table folded over terms[1..k].
SignSum(terms, k) ==
    IF k = 1 THEN terms[1] ELSE SignAdd(SignSum(terms, k - 1), terms[k])

(***************************************************************************)
(* Curvature engine                                                        *)
(***************************************************************************)
\* Mutant: an affine or constant argument is not accepted.
ConvexSlotStrict(c, m) ==
    \/ c = "CONVEX" /\ m = "INCREASING"
    \/ c = "CONCAVE" /\ m = "DECREASING"

ConvexSlot(c, m) ==
    \/ c = "CONVEX" /\ m = "INCREASING"
    \/ c = "CONCAVE" /\ m = "DECREASING"
    \/ c \in {"AFFINE", "CONSTANT"}

\* Mutant: the concave rule reads the convex rule's conditions.
ConcaveSlotAsConvex(c, m) ==
    \/ c = "CONVEX" /\ m = "INCREASING"
    \/ c = "CONCAVE" /\ m = "DECREASING"
    \/ c \in {"AFFINE", "CONSTANT"}

ConcaveSlot(c, m) ==
    \/ c = "CONCAVE" /\ m = "INCREASING"
    \/ c = "CONVEX" /\ m = "DECREASING"
    \/ c \in {"AFFINE", "CONSTANT"}

\* Mutant: the convex and concave rules are kept for convex and concave
\* atoms only, so an affine atom over a non-affine argument is UNKNOWN.
CurvatureOfByBase(base, slots) ==
    IF base = "CONSTANT" /\ \A s \in slots : s[1] = "CONSTANT" THEN "CONSTANT"
    ELSE IF base = "AFFINE" /\ \A s \in slots : s[1] \in {"AFFINE", "CONSTANT"}
         THEN "AFFINE"
    ELSE IF base = "CONVEX" /\ \A s \in slots : ConvexSlot(s[1], s[2])
         THEN "CONVEX"
    ELSE IF base = "CONCAVE" /\ \A s \in slots : ConcaveSlot(s[1], s[2])
         THEN "CONCAVE"
    ELSE "UNKNOWN"

\* The composition rules. slots is the set of <<curvature, monotonicity>> of
\* the arguments; an affine function is convex and concave.
CurvatureOf(base, slots) ==
    IF base = "CONSTANT" /\ \A s \in slots : s[1] = "CONSTANT" THEN "CONSTANT"
    ELSE IF base = "AFFINE" /\ \A s \in slots : s[1] \in {"AFFINE", "CONSTANT"}
         THEN "AFFINE"
    ELSE IF base \in {"CONVEX", "AFFINE"} /\ \A s \in slots : ConvexSlot(s[1], s[2])
         THEN "CONVEX"
    ELSE IF base \in {"CONCAVE", "AFFINE"} /\ \A s \in slots : ConcaveSlot(s[1], s[2])
         THEN "CONCAVE"
    ELSE "UNKNOWN"

(***************************************************************************)
(* Shape engine                                                            *)
(***************************************************************************)
IsConstant(n) == \A e \in Entries(n.shape) : n.curvature[e] = "CONSTANT"

Accept(shape) == [error |-> "none", shape |-> shape, shapes |-> <<>>]

DimensionError(kids) ==
    [error |-> "DimensionError", shape |-> <<0, 0>>,
     shapes |-> [k \in DOMAIN kids |-> kids[k].shape]]

InvalidOperandError(kids) ==
    [error |-> "InvalidOperandError", shape |-> <<0, 0>>,
     shapes |-> [k \in DOMAIN kids |-> kids[k].shape]]

\* Mutant: a scalar operand does not broadcast.
ElementwiseShapeNoBroadcast(kids) ==
    IF kids[1].shape = kids[2].shape THEN Accept(kids[1].shape)
    ELSE DimensionError(kids)

\* Addition and subtraction: equal shapes, or one scalar operand broadcasts.
ElementwiseShape(kids) ==
    IF kids[1].shape = kids[2].shape THEN Accept(kids[1].shape)
    ELSE IF is_scalar(kids[1]) THEN Accept(kids[2].shape)
    ELSE IF is_scalar(kids[2]) THEN Accept(kids[1].shape)
    ELSE DimensionError(kids)

\* Mutant: only a constant left operand is accepted.
MulShapeLeftConstant(kids) ==
    IF ~IsConstant(kids[1]) THEN InvalidOperandError(kids)
    ELSE IF kids[1].shape[2] # kids[2].shape[1] THEN DimensionError(kids)
    ELSE Accept(<<kids[1].shape[1], kids[2].shape[2]>>)

\* Multiplication: one operand constant, then the matrix product's rule.
MulShape(kids) ==
    IF ~IsConstant(kids[1]) /\ ~IsConstant(kids[2]) THEN InvalidOperandError(kids)
    ELSE IF kids[1].shape[2] # kids[2].shape[1] THEN DimensionError(kids)
    ELSE Accept(<<kids[1].shape[1], kids[2].shape[2]>>)

\* Mutant: any constant divisor is accepted, scalar or not.
DivShapeAnyConstant(kids) ==
    IF ~IsConstant(kids[2]) THEN InvalidOperandError(kids)
    ELSE Accept(kids[1].shape)

\* Division: by a scalar constant.
DivShape(kids) ==
    IF ~(is_scalar(kids[2]) /\ IsConstant(kids[2])) THEN InvalidOperandError(kids)
    ELSE Accept(kids[1].shape)

VstackShape(kids) ==
    IF kids[1].shape[2] # kids[2].shape[2] THEN DimensionError(kids)
    ELSE Accept(<<kids[1].shape[1] + kids[2].shape[1], kids[1].shape[2]>>)

ShapeOf(atom, kids) ==
    CASE atom \in {"add", "sub"} -> ElementwiseShape(kids)
      [] atom = "mul" -> MulShape(kids)
      [] atom = "div" -> DivShape(kids)
      [] atom = "vstack" -> VstackShape(kids)
      [] atom \in {"square", "sqrt"} -> Accept(kids[1].shape)
      [] atom = "norm" -> Accept(Scalar)

(***************************************************************************)
(* Per-entry inference                                                     *)
(***************************************************************************)
\* The signs of the product's terms at entry e: row e[1] of the left operand
\* against column e[2] of the right operand.
MulTermSigns(kids, e) ==
    [l \in 1..kids[1].shape[2] |->
        SignMul(kids[1].sign[<<e[1], l>>], kids[2].sign[<<l, e[2]>>])]

\* The operand entry a stacked entry comes from: <<operand, entry>>.
VstackSource(kids, e) ==
    IF e[1] <= kids[1].shape[1] THEN <<1, e>>
    ELSE <<2, <<e[1] - kids[1].shape[1], e[2]>>>>

SignOf(atom, kids, e) ==
    CASE atom = "add" ->
             SignAdd(At(kids[1].sign, kids[1].shape, e),
                     At(kids[2].sign, kids[2].shape, e))
      [] atom = "sub" ->
             SignAdd(At(kids[1].sign, kids[1].shape, e),
                     SignNeg(At(kids[2].sign, kids[2].shape, e)))
      [] atom = "mul" -> SignSum(MulTermSigns(kids, e), kids[1].shape[2])
      [] atom = "div" -> SignMul(kids[1].sign[e], kids[2].sign[<<1, 1>>])
      [] atom \in {"square", "sqrt"} ->
             IF kids[1].sign[e] = "ZERO" THEN "ZERO" ELSE "POSITIVE"
      [] atom = "norm" -> "POSITIVE"
      [] atom = "vstack" ->
             LET src == VstackSource(kids, e) IN kids[src[1]].sign[src[2]]

\* The curvature of one term of a product: the composition rule for the
\* affine function "times a constant", monotone by the constant's sign.
MulTermCurvature(c1, s1, c2, s2) ==
    CurvatureOf(Base("mul"),
                {<<c1, Monotonicity("mul", 1, <<s1, s2>>)>>,
                 <<c2, Monotonicity("mul", 2, <<s1, s2>>)>>})

\* The <<curvature, monotonicity>> slots the composition rule reads at entry e.
Slots(atom, kids, e) ==
    CASE atom \in {"add", "sub"} ->
             LET signs == <<At(kids[1].sign, kids[1].shape, e),
                            At(kids[2].sign, kids[2].shape, e)>>
             IN {<<At(kids[i].curvature, kids[i].shape, e),
                   Monotonicity(atom, i, signs)>> : i \in {1, 2}}
      [] atom = "mul" ->
             {<<MulTermCurvature(kids[1].curvature[<<e[1], l>>],
                                 kids[1].sign[<<e[1], l>>],
                                 kids[2].curvature[<<l, e[2]>>],
                                 kids[2].sign[<<l, e[2]>>]),
                "INCREASING">> : l \in 1..kids[1].shape[2]}
      [] atom = "div" ->
             LET signs == <<kids[1].sign[e], kids[2].sign[<<1, 1>>]>>
             IN {<<kids[1].curvature[e], Monotonicity(atom, 1, signs)>>,
                 <<kids[2].curvature[<<1, 1>>], Monotonicity(atom, 2, signs)>>}
      [] atom \in {"square", "sqrt"} ->
             {<<kids[1].curvature[e],
                Monotonicity(atom, 1, <<kids[1].sign[e]>>)>>}
      [] atom = "norm" ->
             {<<kids[1].curvature[f],
                Monotonicity(atom, 1, <<kids[1].sign[f]>>)>> :
                    f \in Entries(kids[1].shape)}
      [] atom = "vstack" ->
             LET src == VstackSource(kids, e)
             IN {<<kids[src[1]].curvature[src[2]],
                   Monotonicity(atom, src[1], <<kids[src[1]].sign[src[2]]>>)>>}

(***************************************************************************)
(* Expression store                                                        *)
(***************************************************************************)
Kids(store, ids) == [k \in DOMAIN ids |-> store[ids[k]]]

\* The node of atom over kids, annotated entry by entry.
MkNode(atom, ids, kids, shape) ==
    [atom |-> atom, args |-> ids, shape |-> shape,
     sign |-> [e \in Entries(shape) |-> SignOf(atom, kids, e)],
     curvature |-> [e \in Entries(shape) |->
                       CurvatureOf(Base(atom), Slots(atom, kids, e))]]

NoCall == [atom |-> "none", args |-> <<>>]

NoResult == [status |-> "none", shapes |-> <<>>, node |-> 0, value |-> "none"]

\* A grid no engine has filled in yet.
Pending == [e \in {} |-> "UNKNOWN"]

\* The annotations of the node under construction and the engines that have
\* run for it, in the order they ran.
NoWork == [done |-> <<>>, shape |-> <<0, 0>>, sign |-> Pending,
           curvature |-> Pending]

Arity(atom) == IF atom \in UnaryAtoms THEN 1 ELSE 2

ArgLists(atom) ==
    IF Arity(atom) = 1 THEN {<<i>> : i \in DOMAIN nodes}
    ELSE {<<i, j>> : i \in DOMAIN nodes, j \in DOMAIN nodes}

\* build(atom, children): the shape check, then sign and curvature inference;
\* a failed check returns the error and stores nothing.
Build(atom, ids) ==
    LET kids == Kids(nodes, ids)
        chk == ShapeOf(atom, kids)
    IN
    /\ pc = "idle"
    /\ chk.error # "none" \/ built < MaxBuilt
    /\ pc' = "done"
    /\ call' = [atom |-> atom, args |-> ids]
    /\ IF chk.error # "none"
       THEN /\ UNCHANGED <<nodes, built>>
            /\ result' = [status |-> chk.error, shapes |-> chk.shapes,
                          node |-> 0, value |-> "none"]
       ELSE /\ nodes' = Append(nodes, MkNode(atom, ids, kids, chk.shape))
            /\ built' = built + 1
            /\ result' = [status |-> "ok", shapes |-> <<>>,
                          node |-> Len(nodes) + 1, value |-> "none"]
    /\ UNCHANGED work

\* Mutant: a failed shape check does not end the call.
ShapeCheckLenient(atom, ids) ==
    LET chk == ShapeOf(atom, Kids(nodes, ids))
    IN
    /\ pc = "idle"
    /\ built < MaxBuilt
    /\ call' = [atom |-> atom, args |-> ids]
    /\ pc' = "sign"
    /\ work' = [NoWork EXCEPT !.done = <<"shape">>, !.shape = chk.shape]
    /\ UNCHANGED <<nodes, built, result>>

\* build(atom, children) step by step.  First step: the shape engine checks
\* the children; a failed check ends the call with the error.
ShapeCheck(atom, ids) ==
    LET chk == ShapeOf(atom, Kids(nodes, ids))
    IN
    /\ pc = "idle"
    /\ chk.error # "none" \/ built < MaxBuilt
    /\ call' = [atom |-> atom, args |-> ids]
    /\ IF chk.error # "none"
       THEN /\ pc' = "done"
            /\ work' = [NoWork EXCEPT !.done = <<"shape">>]
            /\ result' = [status |-> chk.error, shapes |-> chk.shapes,
                          node |-> 0, value |-> "none"]
       ELSE /\ pc' = "sign"
            /\ work' = [NoWork EXCEPT !.done = <<"shape">>, !.shape = chk.shape]
            /\ UNCHANGED result
    /\ UNCHANGED <<nodes, built>>

\* Second step: the sign engine fills in the sign of every entry.
SignInference ==
    /\ pc = "sign"
    /\ pc' = "curvature"
    /\ work' = [work EXCEPT
                   !.done = Append(@, "sign"),
                   !.sign = [e \in Entries(work.shape) |->
                                SignOf(call.atom, Kids(nodes, call.args), e)]]
    /\ UNCHANGED <<nodes, built, call, result>>

\* Third step: the curvature engine fills in the curvature of every entry,
\* and the annotated node enters the store.
CurvatureInference ==
    LET curvature == [e \in Entries(work.shape) |->
                         CurvatureOf(Base(call.atom),
                                     Slots(call.atom, Kids(nodes, call.args), e))]
    IN
    /\ pc = "curvature"
    /\ pc' = "done"
    /\ work' = [work EXCEPT !.done = Append(@, "curvature"),
                            !.curvature = curvature]
    /\ nodes' = Append(nodes, [atom |-> call.atom, args |-> call.args,
                               shape |-> work.shape, sign |-> work.sign,
                               curvature |-> curvature])
    /\ built' = built + 1
    /\ result' = [status |-> "ok", shapes |-> <<>>,
                  node |-> Len(nodes) + 1, value |-> "none"]
    /\ UNCHANGED call

\* A grid as the accessors report it: one value when all entries agree, the
\* 2D array of the entries' values otherwise.
Report(grid, shape) ==
    IF \A e \in Entries(shape) : grid[e] = grid[<<1, 1>>]
    THEN [tag |-> "uniform", value |-> grid[<<1, 1>>]]
    ELSE [tag |-> "grid", grid |-> grid]

Accessors == {"shape", "sign", "curvature"}

Access(accessor, n) ==
    CASE accessor = "shape" -> n.shape
      [] accessor = "sign" -> Report(n.sign, n.shape)
      [] accessor = "curvature" -> Report(n.curvature, n.shape)

\* Mutant: reading writes the value it reports, the first entry's, back
\* into the node's cache.
ReadCollapsing(accessor, i) ==
    /\ pc = "idle"
    /\ pc' = "done"
    /\ call' = [atom |-> accessor, args |-> <<i>>]
    /\ result' = [status |-> "value", shapes |-> <<>>, node |-> i,
                  value |-> Access(accessor, nodes[i])]
    /\ nodes' = [nodes EXCEPT
                    ![i].sign = Uniform(nodes[i].shape, nodes[i].sign[<<1, 1>>]),
                    ![i].curvature =
                        Uniform(nodes[i].shape, nodes[i].curvature[<<1, 1>>])]
    /\ UNCHANGED <<built, work>>

\* expr.size, expr.sign, expr.curvature
Read(accessor, i) ==
    /\ pc = "idle"
    /\ pc' = "done"
    /\ call' = [atom |-> accessor, args |-> <<i>>]
    /\ result' = [status |-> "value", shapes |-> <<>>, node |-> i,
                  value |-> Access(accessor, nodes[i])]
    /\ UNCHANGED <<nodes, built, work>>

\* The call returns to the caller.
Return ==
    /\ pc = "done"
    /\ pc' = "idle"
    /\ call' = NoCall
    /\ result' = NoResult
    /\ work' = NoWork
    /\ UNCHANGED <<nodes, built>>

(***************************************************************************)
(* Sessions: the leaves the tutorial's code cells declare                  *)
(***************************************************************************)
Ones(rows, cols) == [e \in Entries(<<rows, cols>>) |-> 1]

Number(v) == Constant(1, 1, Uniform(Scalar, v))

\* numpy.array([1, -1])
c == Constant(2, 1, (<<1, 1>> :> 1) @@ (<<2, 1>> :> -1))

\* The store after one more successful build.
Grow(store, atom, ids) ==
    Append(store, MkNode(atom, ids, Kids(store, ids),
                         ShapeOf(atom, Kids(store, ids)).shape))

Sessions ==
    { <<Variable(1, 1), Parameter("UNKNOWN")>>,
      <<Variable(5, 4), Constant(3, 5, Ones(3, 5))>>,
      <<Parameter("NEGATIVE"), c>>,
      <<Variable(1, 1), c>>,
      Grow(<<Variable(1, 1), Parameter("NEGATIVE")>>, "square", <<1>>),
      Grow(<<Variable(1, 1), Number(1)>>, "square", <<1>>),
      <<Number(0), Parameter("UNKNOWN")>> }

Init ==
    /\ nodes \in Sessions
    /\ built = 0
    /\ pc = "idle"
    /\ call = NoCall
    /\ result = NoResult
    /\ work = NoWork

Next ==
    \/ \E atom \in UnaryAtoms \cup BinaryAtoms :
           \E ids \in ArgLists(atom) : Build(atom, ids)
    \/ \E accessor \in Accessors : \E i \in DOMAIN nodes : Read(accessor, i)
    \/ Return

Spec == Init /\ [][Next]_vars

\* The same sessions with every build taken one engine at a time.
NextSteps ==
    \/ \E atom \in UnaryAtoms \cup BinaryAtoms :
           \E ids \in ArgLists(atom) : ShapeCheck(atom, ids)
    \/ SignInference
    \/ CurvatureInference
    \/ \E accessor \in Accessors : \E i \in DOMAIN nodes : Read(accessor, i)
    \/ Return

StepSpec == Init /\ [][NextSteps]_vars

(***************************************************************************)
(* Properties                                                              *)
(***************************************************************************)
NodeIds == DOMAIN nodes

KidsOf(i) == Kids(nodes, nodes[i].args)

\* The entries of its child that a convex or concave atom reads at e.
ReadAt(i, e) ==
    IF nodes[i].atom = "norm" THEN Entries(KidsOf(i)[1].shape) ELSE {e}

\* C1: a node of an atom with CONVEX base curvature is CONVEX at an entry
\* exactly when every argument entry it reads there is CONVEX with the atom
\* INCREASING for that entry's sign, or CONCAVE with the atom DECREASING, or
\* AFFINE or CONSTANT; otherwise it is UNKNOWN.
ConvexComposition ==
    \A i \in NodeIds :
        nodes[i].atom \notin LeafAtoms /\ Base(nodes[i].atom) = "CONVEX" =>
            \A e \in Entries(nodes[i].shape) :
                LET kid == KidsOf(i)[1]
                    fits(f) ==
                        LET m == Monotonicity(nodes[i].atom, 1, <<kid.sign[f]>>)
                        IN \/ kid.curvature[f] = "CONVEX" /\ m = "INCREASING"
                           \/ kid.curvature[f] = "CONCAVE" /\ m = "DECREASING"
                           \/ kid.curvature[f] = "AFFINE"
                           \/ kid.curvature[f] = "CONSTANT"
                IN nodes[i].curvature[e] =
                       IF \A f \in ReadAt(i, e) : fits(f) THEN "CONVEX"
                       ELSE "UNKNOWN"

\* C1 witness: square of an AFFINE child of UNKNOWN sign is CONVEX, and the
\* norm of the stack of a constant and a variable is CONVEX.
ConvexCompositionWitness ==
    /\ \E i \in NodeIds :
           /\ nodes[i].atom = "square"
           /\ KidsOf(i)[1].curvature[<<1, 1>>] = "AFFINE"
           /\ KidsOf(i)[1].sign[<<1, 1>>] = "UNKNOWN"
           /\ nodes[i].curvature[<<1, 1>>] = "CONVEX"
    /\ \E i \in NodeIds :
           /\ nodes[i].atom = "norm"
           /\ KidsOf(i)[1].atom = "vstack"
           /\ nodes[KidsOf(i)[1].args[1]].atom = "constant"
           /\ nodes[KidsOf(i)[1].args[2]].atom = "variable"
           /\ nodes[i].curvature[<<1, 1>>] = "CONVEX"

\* C2: a node of an atom with CONCAVE base curvature is CONCAVE at an entry
\* exactly when every argument entry it reads there is CONCAVE with the atom
\* INCREASING, or CONVEX with the atom DECREASING, or AFFINE or CONSTANT;
\* otherwise it is UNKNOWN.
ConcaveComposition ==
    \A i \in NodeIds :
        nodes[i].atom \notin LeafAtoms /\ Base(nodes[i].atom) = "CONCAVE" =>
            \A e \in Entries(nodes[i].shape) :
                LET kid == KidsOf(i)[1]
                    fits(f) ==
                        LET m == Monotonicity(nodes[i].atom, 1, <<kid.sign[f]>>)
                        IN \/ kid.curvature[f] = "CONCAVE" /\ m = "INCREASING"
                           \/ kid.curvature[f] = "CONVEX" /\ m = "DECREASING"
                           \/ kid.curvature[f] = "AFFINE"
                           \/ kid.curvature[f] = "CONSTANT"
                IN nodes[i].curvature[e] =
                       IF \A f \in ReadAt(i, e) : fits(f) THEN "CONCAVE"
                       ELSE "UNKNOWN"

\* C2 witness: sqrt(1 + square(x)), whose argument is CONVEX, is UNKNOWN.
ConcaveCompositionWitness ==
    \E i \in NodeIds :
        /\ nodes[i].atom = "sqrt"
        /\ KidsOf(i)[1].atom = "add"
        /\ nodes[KidsOf(i)[1].args[1]].atom = "constant"
        /\ nodes[KidsOf(i)[1].args[2]].atom = "square"
        /\ KidsOf(i)[1].curvature[<<1, 1>>] = "CONVEX"
        /\ nodes[i].curvature[<<1, 1>>] = "UNKNOWN"

\* C3: at every entry, expr1 + expr2 is AFFINE only when both operands are
\* AFFINE or CONSTANT, CONVEX when one is CONVEX and the other CONVEX, AFFINE
\* or CONSTANT, and CONCAVE when one is CONCAVE and the other CONCAVE, AFFINE
\* or CONSTANT.
AdditionIsIncreasing ==
    \A i \in NodeIds :
        nodes[i].atom = "add" =>
            \A e \in Entries(nodes[i].shape) :
                LET c1 == At(KidsOf(i)[1].curvature, KidsOf(i)[1].shape, e)
                    c2 == At(KidsOf(i)[2].curvature, KidsOf(i)[2].shape, e)
                    flat == {"AFFINE", "CONSTANT"}
                    got == nodes[i].curvature[e]
                IN /\ got = "AFFINE" <=> {c1, c2} \subseteq flat
                   /\ "CONVEX" \in {c1, c2} /\ {c1, c2} \subseteq flat \cup {"CONVEX"}
                          => got = "CONVEX"
                   /\ "CONCAVE" \in {c1, c2} /\ {c1, c2} \subseteq flat \cup {"CONCAVE"}
                          => got = "CONCAVE"

\* C3 witness: 1 + square(x) is CONVEX.
AdditionIsIncreasingWitness ==
    \E i \in NodeIds :
        /\ nodes[i].atom = "add"
        /\ KidsOf(i)[1].atom = "constant"
        /\ KidsOf(i)[1].curvature[<<1, 1>>] = "CONSTANT"
        /\ KidsOf(i)[2].atom = "square"
        /\ KidsOf(i)[2].curvature[<<1, 1>>] = "CONVEX"
        /\ nodes[i].curvature[<<1, 1>>] = "CONVEX"

\* The sign table of a product as the tutorial states it.
ProductSign(s1, s2) ==
    CASE s1 = "ZERO" \/ s2 = "ZERO" -> "ZERO"
      [] <<s1, s2>> \in {<<"POSITIVE", "POSITIVE">>, <<"NEGATIVE", "NEGATIVE">>}
             -> "POSITIVE"
      [] <<s1, s2>> \in {<<"POSITIVE", "NEGATIVE">>, <<"NEGATIVE", "POSITIVE">>}
             -> "NEGATIVE"
      [] OTHER -> "UNKNOWN"

\* The <<left entry, right entry>> pairs whose products make up entry e of a
\* multiplication or division node.
Factors(i, e) ==
    IF nodes[i].atom = "div" THEN {<<e, <<1, 1>>>>}
    ELSE {<<<<e[1], l>>, <<l, e[2]>>>> : l \in 1..KidsOf(i)[1].shape[2]}

\* C4: every entry of a multiplication or division node that is one product
\* of operand entries (or a sum of products of the same two signs) has the
\* sign the table gives for the two operand signs.
ProductSignTable ==
    \A i \in NodeIds :
        nodes[i].atom \in {"mul", "div"} =>
            \A e \in Entries(nodes[i].shape) :
                \A s1, s2 \in Signs :
                    (\A f \in Factors(i, e) :
                         /\ KidsOf(i)[1].sign[f[1]] = s1
                         /\ KidsOf(i)[2].sign[f[2]] = s2)
                    => nodes[i].sign[e] = ProductSign(s1, s2)

\* C4 witness: c*a for c = [1, -1] and a NEGATIVE parameter a has the sign
\* grid [NEGATIVE, POSITIVE].
ProductSignTableWitness ==
    \E i \in NodeIds :
        /\ nodes[i].atom = "mul"
        /\ KidsOf(i)[1] = c
        /\ KidsOf(i)[2] = Parameter("NEGATIVE")
        /\ nodes[i].sign = (<<1, 1>> :> "NEGATIVE") @@ (<<2, 1>> :> "POSITIVE")

\* C5: where every product making up an entry of a multiplication or
\* division node has a CONSTANT factor of NEGATIVE sign, a CONVEX other
\* factor gives CONCAVE and a CONCAVE one CONVEX; with a CONSTANT factor of
\* POSITIVE sign the other factor's CONVEX or CONCAVE curvature is kept.
ConstantFactorFlips ==
    \A i \in NodeIds :
        nodes[i].atom \in {"mul", "div"} =>
            \A e \in Entries(nodes[i].shape) :
                \A side \in (IF nodes[i].atom = "div" THEN {2} ELSE {1, 2}) :
                    \A s \in {"POSITIVE", "NEGATIVE"} :
                        \A cv \in {"CONVEX", "CONCAVE"} :
                            (\A f \in Factors(i, e) :
                                 /\ KidsOf(i)[side].curvature[f[side]] = "CONSTANT"
                                 /\ KidsOf(i)[side].sign[f[side]] = s
                                 /\ KidsOf(i)[3 - side].curvature[f[3 - side]] = cv)
                            => nodes[i].curvature[e] =
                                   IF s = "POSITIVE" THEN cv
                                   ELSE IF cv = "CONVEX" THEN "CONCAVE"
                                   ELSE "CONVEX"

\* C5 witness: c*square(x) for c = [1, -1] has the curvature grid
\* [CONVEX, CONCAVE].
ConstantFactorFlipsWitness ==
    \E i \in NodeIds :
        /\ nodes[i].atom = "mul"
        /\ KidsOf(i)[1] = c
        /\ KidsOf(i)[2].atom = "square"
        /\ KidsOf(i)[2].curvature[<<1, 1>>] = "CONVEX"
        /\ nodes[i].curvature = (<<1, 1>> :> "CONVEX") @@ (<<2, 1>> :> "CONCAVE")

\* C10: square reads its monotonicity from the sign computed for its
\* argument: square of a CONVEX POSITIVE entry is CONVEX, of a CONCAVE
\* NEGATIVE entry is CONVEX, and of a CONVEX or CONCAVE entry of UNKNOWN sign
\* is UNKNOWN.
SquareBySign ==
    /\ Monotonicity("square", 1, <<"POSITIVE">>) = "INCREASING"
    /\ Monotonicity("square", 1, <<"NEGATIVE">>) = "DECREASING"
    /\ Monotonicity("square", 1, <<"UNKNOWN">>) = "NONMONOTONE"
    /\ \A i \in NodeIds :
           nodes[i].atom = "square" =>
               \A e \in Entries(nodes[i].shape) :
                   LET cv == KidsOf(i)[1].curvature[e]
                       s == KidsOf(i)[1].sign[e]
                   IN /\ cv = "CONVEX" /\ s = "POSITIVE"
                          => nodes[i].curvature[e] = "CONVEX"
                      /\ cv = "CONCAVE" /\ s = "NEGATIVE"
                          => nodes[i].curvature[e] = "CONVEX"
                      /\ cv \in {"CONVEX", "CONCAVE"} /\ s = "UNKNOWN"
                          => nodes[i].curvature[e] = "UNKNOWN"

\* C10 witness: the square of a CONCAVE NEGATIVE node (a NEGATIVE parameter
\* times square(x)) is CONVEX.
SquareBySignWitness ==
    \E i \in NodeIds :
        /\ nodes[i].atom = "square"
        /\ KidsOf(i)[1].atom = "mul"
        /\ KidsOf(i)[1].curvature[<<1, 1>>] = "CONCAVE"
        /\ KidsOf(i)[1].sign[<<1, 1>>] = "NEGATIVE"
        /\ nodes[i].curvature[<<1, 1>>] = "CONVEX"

AllConstant(n) == \A e \in Entries(n.shape) : n.curvature[e] = "CONSTANT"

Errors == {"DimensionError", "InvalidOperandError"}

\* C6: a build of an addition or subtraction whose operand shapes differ,
\* neither being scalar, returns DimensionError with exactly the two operand
\* shapes and stores nothing; otherwise it succeeds and the new node has the
\* non-scalar operand's shape.
ElementwiseBuild ==
    [][pc' = "done" /\ call'.atom \in {"add", "sub"} =>
           LET a == nodes[call'.args[1]]
               b == nodes[call'.args[2]]
           IN IF a.shape # b.shape /\ a.shape # <<1, 1>> /\ b.shape # <<1, 1>>
              THEN /\ result'.status = "DimensionError"
                   /\ result'.shapes = <<a.shape, b.shape>>
                   /\ result'.node = 0
                   /\ nodes' = nodes
              ELSE /\ result'.status = "ok"
                   /\ Len(nodes') = Len(nodes) + 1
                   /\ result'.node = Len(nodes')
                   /\ nodes'[result'.node].atom = call'.atom
                   /\ nodes'[result'.node].args = call'.args
                   /\ nodes'[result'.node].shape =
                          IF a.shape = <<1, 1>> THEN b.shape ELSE a.shape]_vars

\* C6 witness: A + X for A of shape (3, 5) and X of shape (5, 4) has returned
\* DimensionError with the shapes (3, 5) and (5, 4).
ElementwiseBuildWitness ==
    /\ pc = "done"
    /\ call.atom = "add"
    /\ result.status = "DimensionError"
    /\ result.shapes = <<<<3, 5>>, <<5, 4>>>>

\* C7: a build of a multiplication with two non-CONSTANT operands, or of a
\* division whose right operand is not a scalar CONSTANT, returns
\* InvalidOperandError from that call and stores nothing; any other
\* multiplication or division does not return InvalidOperandError.
OperandRestrictions ==
    [][pc' = "done" /\ call'.atom \in {"mul", "div"} =>
           LET a == nodes[call'.args[1]]
               b == nodes[call'.args[2]]
               invalid ==
                   IF call'.atom = "mul" THEN ~AllConstant(a) /\ ~AllConstant(b)
                   ELSE ~(b.shape = <<1, 1>> /\ AllConstant(b))
           IN IF invalid
              THEN /\ result'.status = "InvalidOperandError"
                   /\ result'.node = 0
                   /\ nodes' = nodes
              ELSE result'.status # "InvalidOperandError"]_vars

\* C7 witness: a product of two non-CONSTANT nodes has returned
\* InvalidOperandError.
OperandRestrictionsWitness ==
    /\ pc = "done"
    /\ call.atom = "mul"
    /\ ~AllConstant(nodes[call.args[1]])
    /\ ~AllConstant(nodes[call.args[2]])
    /\ result.status = "InvalidOperandError"

\* C8: no step changes the shape, sign or curvature of a node already in the
\* store, and every read reports exactly the stored value and changes
\* nothing, so an accessor returns the same value every time.
NodesNeverChange ==
    [][/\ \A i \in DOMAIN nodes :
              /\ i \in DOMAIN nodes'
              /\ nodes'[i].shape = nodes[i].shape
              /\ nodes'[i].sign = nodes[i].sign
              /\ nodes'[i].curvature = nodes[i].curvature
       /\ pc' = "done" /\ call'.atom \in Accessors =>
              LET n == nodes[call'.args[1]]
                  v == result'.value
                  grid == IF call'.atom = "sign" THEN n.sign ELSE n.curvature
              IN /\ nodes' = nodes
                 /\ IF call'.atom = "shape" THEN v = n.shape
                    ELSE IF v.tag = "uniform"
                         THEN \A e \in Entries(n.shape) : grid[e] = v.value
                         ELSE v.grid = grid]_vars

\* C8 witness: a node that a later build has used as a child, read again
\* after a second build.
NodesNeverChangeWitness ==
    /\ pc = "done"
    /\ call.atom \in Accessors
    /\ built >= 2
    /\ \E j \in NodeIds : \E k \in DOMAIN nodes[j].args :
           nodes[j].args[k] = call.args[1]

WellFormed(store) ==
    \A i \in DOMAIN store :
        LET n == store[i]
            kids == Kids(store, n.args)
        IN /\ \A k \in DOMAIN n.args : n.args[k] \in 1..(i - 1)
           /\ n.atom = "mul" =>
                  /\ AllConstant(kids[1]) \/ AllConstant(kids[2])
                  /\ kids[1].shape[2] = kids[2].shape[1]
           /\ n.atom = "div" =>
                  kids[2].shape = <<1, 1>> /\ AllConstant(kids[2])
           /\ n.atom \in {"add", "sub"} =>
                  \/ kids[1].shape = kids[2].shape
                  \/ kids[1].shape = <<1, 1>>
                  \/ kids[2].shape = <<1, 1>>

\* C9: before and after every step every node of the store is well-formed,
\* and a build that returns an error returns no node and leaves the store
\* as it was.
EveryNodeWellFormed ==
    [][/\ WellFormed(nodes)
       /\ WellFormed(nodes')
       /\ result'.status \in Errors => result'.node = 0 /\ nodes' = nodes]_vars

\* C9 witness: the store holds the matrix product A*X, of shape (3, 4), and
\* a product with mismatched inner dimensions has just been refused.
EveryNodeWellFormedWitness ==
    /\ pc = "done"
    /\ call.atom = "mul"
    /\ result.status = "DimensionError"
    /\ \E i \in NodeIds : nodes[i].atom = "mul" /\ nodes[i].shape = <<3, 4>>

\* C12: where every product making up an entry of a multiplication or
\* division node has a CONSTANT factor of UNKNOWN sign and a CONVEX or
\* CONCAVE other factor, the entry's curvature is UNKNOWN; the node is in the
\* store, so its build was accepted.
UnknownFactorIsUnknown ==
    \A i \in NodeIds :
        nodes[i].atom \in {"mul", "div"} =>
            \A e \in Entries(nodes[i].shape) :
                \A side \in (IF nodes[i].atom = "div" THEN {2} ELSE {1, 2}) :
                    (\A f \in Factors(i, e) :
                         /\ KidsOf(i)[side].curvature[f[side]] = "CONSTANT"
                         /\ KidsOf(i)[side].sign[f[side]] = "UNKNOWN"
                         /\ KidsOf(i)[3 - side].curvature[f[3 - side]]
                                \in {"CONVEX", "CONCAVE"})
                    => nodes[i].curvature[e] = "UNKNOWN"

\* C12 witness: b*square(x) for a parameter b with no declared sign has just
\* been built, and its curvature is UNKNOWN.
UnknownFactorIsUnknownWitness ==
    /\ pc = "done"
    /\ call.atom = "mul"
    /\ result.status = "ok"
    /\ nodes[result.node].atom = "mul"
    /\ nodes[call.args[1]] = Parameter("UNKNOWN")
    /\ nodes[call.args[2]].atom = "square"
    /\ nodes[call.args[2]].curvature[<<1, 1>>] = "CONVEX"
    /\ nodes[result.node].curvature[<<1, 1>>] = "UNKNOWN"

BuildAtoms == UnaryAtoms \cup BinaryAtoms

EngineOrder == <<"shape", "sign", "curvature">>

\* The node under construction has exactly the annotations of the engines
\* that have run.
Annotated(upto) ==
    /\ work.done = SubSeq(EngineOrder, 1, upto)
    /\ DOMAIN work.sign = (IF upto >= 2 THEN Entries(work.shape) ELSE {})
    /\ DOMAIN work.curvature = (IF upto >= 3 THEN Entries(work.shape) ELSE {})

\* C11: within a build the engines run in the order shape, sign, curvature.
\* Sign inference is under way only after an accepted shape check, and a
\* refused build has run the shape check alone; curvature inference is under
\* way only once the sign of every entry is there; the node enters the store
\* only when all three are there, as the node the one-step build makes; and
\* the children of every call and of every stored node are nodes stored
\* earlier, each with its shape, sign and curvature on all its entries.
EnginesInOrder ==
    /\ pc = "sign" =>
           /\ Annotated(1)
           /\ ShapeOf(call.atom, Kids(nodes, call.args)).error = "none"
           /\ work.shape = ShapeOf(call.atom, Kids(nodes, call.args)).shape
    /\ pc = "curvature" => Annotated(2)
    /\ pc = "done" /\ call.atom \in BuildAtoms =>
           IF result.status \in Errors
           THEN Annotated(1) /\ result.node = 0
           ELSE /\ Annotated(3)
                /\ result.node = Len(nodes)
                /\ nodes[result.node] =
                       MkNode(call.atom, call.args, Kids(nodes, call.args),
                              work.shape)
    /\ pc \in {"sign", "curvature"} => result = NoResult
    /\ call.atom \in BuildAtoms =>
           \A k \in DOMAIN call.args :
               /\ call.args[k] \in DOMAIN nodes
               /\ result.status = "ok" => call.args[k] < result.node
    /\ \A i \in DOMAIN nodes :
           /\ \A k \in DOMAIN nodes[i].args : nodes[i].args[k] \in 1..(i - 1)
           /\ DOMAIN nodes[i].sign = Entries(nodes[i].shape)
           /\ DOMAIN nodes[i].curvature = Entries(nodes[i].shape)

\* C11 witness: the second build of a session, over the node its first build
\* stored, has gone through the three engines and returned its node.
EnginesInOrderWitness ==
    /\ pc = "done"
    /\ call.atom \in BuildAtoms
    /\ result.status = "ok"
    /\ work.done = EngineOrder
    /\ built = 2
    /\ \E k \in DOMAIN call.args : call.args[k] = result.node - 1

====
